---- MODULE Spec2Model ----
(***************************************************************************)
(* Model of symphonia-core's MediaSourceStream                             *)
(* (src/symphonia-core/src/io/media_source_stream.rs): a two-partition     *)
(* read-ahead / rewind buffer in front of a sequential source.             *)
(*                                                                         *)
(* The two capacities are the program's constants scaled down, keeping     *)
(* their shape (powers of two, INIT_CAPACITY < MAX_CAPACITY, more than one *)
(* doubling apart): the source has 1024 and 32 * 1024.  Machine words      *)
(* (usize, u64) are modelled modulo WordMod instead of 2^64.               *)
(***************************************************************************)
EXTENDS Integers, Sequences, FiniteSets, TLC

\* ------------------------------------------------------------------------
\* Constants of the program (scaled) and bounds of the model

MAX_CAPACITY == 8

INIT_CAPACITY == 2

\* Modulus of the machine word: unsigned arithmetic wraps at WordMod.
WordMod == 1048576

\* Largest length of a bulk read, an exact read or a skip.
MaxReadLen == 6

\* Largest rewind length requested.
MaxRewind == 4

\* The absolute offset seeks ask for.
SeekTarget == 5

\* Number of successful seeks a run makes at most.
MaxSeeks == 1

\* Number of operations of a run in which an overflow wraps, at most.
MaxWraps == 1

BufLen == 2 * MAX_CAPACITY


\* A source answers its k-th read call by the k-th entry of its schedule
\* (cyclically): c > 0 transfers at most c bytes (a short read when c is
\* less than the request), Interrupted fails with ErrorKind::Interrupted,
\* IoFailure with another error kind.
Interrupted == -1

IoFailure == -2

\* The sources the stream is created over: a length, a schedule, and
\* whether the source can seek (MediaSource::is_seekable).
Source(len, schedule, seekable) ==
    [len |-> len, sched |-> schedule, seekable |-> seekable]

Sources == { Source(7, <<8>>, TRUE), Source(10, <<8>>, FALSE),
             Source(23, <<8>>, FALSE), Source(10, <<1>>, FALSE),
             Source(12, <<3, 1>>, FALSE),
             Source(10, <<2, Interrupted>>, FALSE),
             Source(10, <<8, 8, IoFailure>>, FALSE) }

\* The byte of the source at absolute offset i (all distinct, none zero).
SrcByte(i) == i + 1

Min(a, b) == IF a <= b THEN a ELSE b

Max(a, b) == IF a >= b THEN a ELSE b

\* let v = ...; F(v): a value computed once and used by what follows.
With(v, F(_)) == F(v)

\* ------------------------------------------------------------------------
\* Machine arithmetic.  With overflow checks (debug builds) an overflowing
\* operation panics; without them (release builds) it wraps.

WSub(a, b) == (a - b + WordMod) % WordMod

WAdd(a, b) == (a + b) % WordMod

VARIABLES
    buf,          \* MediaSourceStream.buf: index -> byte
    pos,          \* MediaSourceStream.pos
    end_pos,      \* MediaSourceStream.end_pos
    cur_capacity, \* MediaSourceStream.cur_capacity
    part_idx,     \* MediaSourceStream.part_idx
    part,         \* MediaSourceStream.part: 0..1 -> Partition
    src_len,      \* inner source: its length
    src_pos,      \* inner source: its read position
    src_calls,    \* inner source: number of read calls answered (modulo the schedule)
    src_log,      \* inner source: the sizes of the reads requested since the last seek
    sched,        \* inner source: its schedule of answers
    src_seekable, \* inner source: whether it can seek
    hist,         \* what the consumer has done since creation or the last seek
    seeks,        \* number of successful seeks so far
    wraps,        \* operations in which an overflow has wrapped (a build without checks)
    panicked,     \* the thread has panicked: the stream is gone
    last          \* the last operation: its name, argument, outcome and pre-state

vars == <<buf, pos, end_pos, cur_capacity, part_idx, part, src_len, src_pos,
          src_calls, src_log, sched, src_seekable, hist, seeks, wraps, panicked, last>>

\* The stream and its source as one value, so that operations compose.
Self == [buf |-> buf, pos |-> pos, end_pos |-> end_pos,
         cur_capacity |-> cur_capacity, part_idx |-> part_idx, part |-> part,
         src_pos |-> src_pos, src_calls |-> src_calls, src_log |-> src_log]

Partition(base_pos, len, capacity) ==
    [base_pos |-> base_pos, len |-> len, capacity |-> capacity]

\* The source's log: reqs lists the sizes of the reads requested of it
\* since creation or its last seek, up to and including the first one it
\* did not fill completely; filled tells that every one so far was filled.
NoLog == [reqs |-> <<>>, filled |-> TRUE]

Logged(log, amount, n, kind) ==
    IF log.filled
    THEN [reqs |-> Append(log.reqs, amount), filled |-> kind = "ok" /\ n = amount]
    ELSE log

\* MediaSourceStream::new
New == [buf |-> [i \in 0..(BufLen - 1) |-> 0], pos |-> 0, end_pos |-> 0,
        cur_capacity |-> INIT_CAPACITY, part_idx |-> 0,
        part |-> [i \in 0..1 |-> Partition(0, 0, INIT_CAPACITY)],
        src_pos |-> 0, src_calls |-> 0, src_log |-> NoLog]

\* ------------------------------------------------------------------------
\* Queries

\* pos(): wrapped value, and whether computing it overflows.
pos_ovf(s) ==
    LET p == s.part[s.part_idx]
    IN  \/ s.pos > s.end_pos
        \/ WSub(s.end_pos, s.pos) > p.base_pos + p.len

pos_val(s) ==
    LET p == s.part[s.part_idx]
    IN  WSub(WAdd(p.base_pos, p.len), WSub(s.end_pos, s.pos))

inner_pos(s) ==
    Max(s.part[0].base_pos + s.part[0].len, s.part[1].base_pos + s.part[1].len)

buffered_ovf(s) == pos_ovf(s) \/ pos_val(s) > inner_pos(s)

buffered_bytes(s) == WSub(inner_pos(s), pos_val(s))

min_base(s) == Min(s.part[0].base_pos, s.part[1].base_pos)

rewindable_ovf(s) == pos_ovf(s) \/ min_base(s) > pos_val(s)

rewindable_bytes(s) == WSub(pos_val(s), min_base(s))

\* ------------------------------------------------------------------------
\* The inner source (a cursor over src_len bytes answering by its schedule)

Token(s) == sched[(s.src_calls % Len(sched)) + 1]

\* inner.read(&mut buf[at .. at + amount]): kind is "ok", "intr" or "ioerr";
\* n the bytes transferred, written at buf[at ..] from the source position.
inner_read(s, at, amount) ==
    LET t == Token(s)
        avail == IF s.src_pos >= src_len THEN 0 ELSE src_len - s.src_pos
        n == Min(Min(t, amount), avail)
        kind == IF t = Interrupted THEN "intr"
                ELSE IF t = IoFailure THEN "ioerr" ELSE "ok"
        s1 == [s EXCEPT !.src_calls = (@ + 1) % Len(sched),
                        !.src_log = Logged(@, amount, n, kind)]
    IN  IF kind # "ok" THEN [kind |-> kind, n |-> 0, s |-> s1]
        ELSE [kind |-> "ok", n |-> n,
              s |-> [s1 EXCEPT
                       !.buf = [i \in 0..(BufLen - 1) |->
                                  IF i >= at /\ i < at + n
                                  THEN SrcByte(s.src_pos + (i - at)) ELSE @[i]],
                       !.src_pos = @ + n]]

\* ------------------------------------------------------------------------
\* The refill engine

\* &buf[a .. b] panics when the range is not inside the buffer.
slice_ok(a, b) == a <= b /\ b <= BufLen

\* fetch_buffer, case 1: the active partition is the older one (the stream
\* was rewound): move to the first byte of the newer partition, no I/O.
fetch_catch_up(s, alt_idx) ==
    LET p == alt_idx * MAX_CAPACITY
    IN  [st |-> "ok",
         s |-> [s EXCEPT !.pos = p,
                         !.end_pos = p + s.part[alt_idx].len,
                         !.part_idx = alt_idx]]

\* (as fetch_fill, with the bytes read put at the start of the partition's
\* half instead of after those it holds)
fetch_fill_at_half_start(s, cur_idx) ==
    LET amount == s.part[cur_idx].capacity - s.part[cur_idx].len
        p == cur_idx * MAX_CAPACITY
    IN  IF ~slice_ok(p, p + amount) THEN [st |-> "panic", s |-> s]
        ELSE With(inner_read(s, p, amount), LAMBDA r :
                IF r.kind # "ok" THEN [st |-> r.kind, s |-> r.s]
                ELSE [st |-> "ok",
                      s |-> [r.s EXCEPT !.part[cur_idx].len = @ + r.n,
                                        !.end_pos = @ + r.n]])

\* fetch_buffer, case 2: the active partition is below its capacity: read
\* capacity - len more bytes at buf[pos ..].
fetch_fill(s, cur_idx) ==
    LET amount == s.part[cur_idx].capacity - s.part[cur_idx].len
    IN  IF ~slice_ok(s.pos, s.pos + amount) THEN [st |-> "panic", s |-> s]
        ELSE With(inner_read(s, s.pos, amount), LAMBDA r :
                IF r.kind # "ok" THEN [st |-> r.kind, s |-> r.s]
                ELSE [st |-> "ok",
                      s |-> [r.s EXCEPT !.part[cur_idx].len = @ + r.n,
                                        !.end_pos = @ + r.n]])

\* (as grown_capacity, with the doubling forgotten)
grown_capacity_flat(capacity) == Min(capacity, MAX_CAPACITY)

\* (as grown_capacity, growing by INIT_CAPACITY instead of doubling)
grown_capacity_linear(capacity) == Min(capacity + INIT_CAPACITY, MAX_CAPACITY)

\* The read-ahead capacity after one more growth step.
grown_capacity(capacity) == Min(2 * capacity, MAX_CAPACITY)

\* The capacity recorded on the partition a grow-and-swap refill fills.
swap_capacity(s, capacity) == s.cur_capacity

\* (as fetch_swap, with the read boundary put at the capacity requested
\* instead of the length transferred)
fetch_swap_end_at_capacity(s, cur_idx, alt_idx) ==
    LET capacity == grown_capacity(s.cur_capacity)
        p == alt_idx * MAX_CAPACITY
    IN  IF ~slice_ok(p, p + capacity) THEN [st |-> "panic", s |-> s]
        ELSE With(inner_read(s, p, capacity), LAMBDA r :
                IF r.kind # "ok" THEN [st |-> r.kind, s |-> r.s]
                ELSE [st |-> "ok",
                      s |-> [r.s EXCEPT
                               !.part[alt_idx] =
                                   Partition(s.part[cur_idx].base_pos
                                                 + s.part[cur_idx].len,
                                             r.n, swap_capacity(s, capacity)),
                               !.part_idx = alt_idx,
                               !.cur_capacity = capacity,
                               !.pos = p,
                               !.end_pos = p + capacity]])

\* (as fetch_swap, with the partition information updated before the read
\* is known to have succeeded)
fetch_swap_commit_first(s, cur_idx, alt_idx) ==
    LET capacity == grown_capacity(s.cur_capacity)
        p == alt_idx * MAX_CAPACITY
    IN  IF ~slice_ok(p, p + capacity) THEN [st |-> "panic", s |-> s]
        ELSE With(inner_read(s, p, capacity), LAMBDA r :
                With([r.s EXCEPT
                        !.part[alt_idx] =
                            Partition(s.part[cur_idx].base_pos
                                          + s.part[cur_idx].len,
                                      r.n, swap_capacity(s, capacity)),
                        !.part_idx = alt_idx,
                        !.cur_capacity = capacity,
                        !.pos = p,
                        !.end_pos = p + r.n],
                     LAMBDA t : [st |-> r.kind, s |-> t]))

\* fetch_buffer, case 3: the active partition was filled to capacity and
\* read fully: read up to the grown capacity into the other half and swap.
fetch_swap(s, cur_idx, alt_idx) ==
    LET capacity == grown_capacity(s.cur_capacity)
        p == alt_idx * MAX_CAPACITY
    IN  IF ~slice_ok(p, p + capacity) THEN [st |-> "panic", s |-> s]
        ELSE With(inner_read(s, p, capacity), LAMBDA r :
                IF r.kind # "ok" THEN [st |-> r.kind, s |-> r.s]
                ELSE [st |-> "ok",
                      s |-> [r.s EXCEPT
                               !.part[alt_idx] =
                                   Partition(s.part[cur_idx].base_pos
                                                 + s.part[cur_idx].len,
                                             r.n, swap_capacity(s, capacity)),
                               !.part_idx = alt_idx,
                               !.cur_capacity = capacity,
                               !.pos = p,
                               !.end_pos = p + r.n]])

\* The source read that fetch_buffer would issue in state s: its size, or
\* 0 when the refill needs no I/O.
fetch_request(s) ==
    LET cur_idx == s.part_idx
        alt_idx == 1 - cur_idx
    IN  IF s.pos < s.end_pos THEN 0
        ELSE IF s.part[cur_idx].base_pos < s.part[alt_idx].base_pos THEN 0
        ELSE IF s.part[cur_idx].len < s.part[cur_idx].capacity
             THEN s.part[cur_idx].capacity - s.part[cur_idx].len
        ELSE grown_capacity(s.cur_capacity)

\* fetch_buffer: st is "ok" (the readable slice is buf[pos .. end_pos]),
\* "intr" / "ioerr" (the source read failed) or "panic".
fetch_buffer(s) ==
    LET cur_idx == s.part_idx
        alt_idx == 1 - cur_idx
    IN  With(IF s.pos < s.end_pos THEN [st |-> "ok", s |-> s]
             ELSE IF s.part[cur_idx].base_pos < s.part[alt_idx].base_pos
                  THEN fetch_catch_up(s, alt_idx)
             ELSE IF s.part[cur_idx].len < s.part[cur_idx].capacity
                  THEN fetch_fill(s, cur_idx)
             ELSE fetch_swap(s, cur_idx, alt_idx),
             LAMBDA r :
                IF r.st = "ok" /\ ~slice_ok(r.s.pos, r.s.end_pos)
                THEN [st |-> "panic", s |-> r.s]
                ELSE r)

\* fetch_buffer_or_eof: an empty slice is an end-of-stream error.
fetch_buffer_or_eof(s) ==
    With(fetch_buffer(s), LAMBDA r :
        IF r.st = "ok" /\ r.s.pos = r.s.end_pos THEN [st |-> "eof", s |-> r.s]
        ELSE r)

\* buf[a .. b) as a sequence.
buf_bytes(s, a, b) == [k \in 1..(b - a) |-> s.buf[a + k - 1]]

\* ------------------------------------------------------------------------
\* Operations.  Each yields the stream afterwards (s), how it ended (st:
\* "ok", "eof" = UnexpectedEof, "intr" = Interrupted, "ioerr", "seekerr",
\* "panic"), its return value (ret), the bytes it handed to the caller
\* (out) and whether an arithmetic overflow happened on the way (ovf).
\* chk: the build has overflow checks.

Result(s, st, ret, out, ovf) ==
    [s |-> s, st |-> st, ret |-> ret, out |-> out, ovf |-> ovf]

\* (as invalidate, with the partitions put back at offset 0)
invalidate_at_zero(s, base_pos) ==
    [s EXCEPT !.pos = 0, !.end_pos = 0, !.cur_capacity = INIT_CAPACITY,
              !.part_idx = 0,
              !.part = [i \in 0..1 |-> Partition(0, 0, INIT_CAPACITY)]]

\* (as invalidate, with the capacities left as they had grown)
invalidate_keep_capacity(s, base_pos) ==
    [s EXCEPT !.pos = 0, !.end_pos = 0, !.part_idx = 0,
              !.part = [i \in 0..1 |-> Partition(base_pos, 0, s.cur_capacity)]]

\* invalidate(base_pos)
invalidate(s, base_pos) ==
    [s EXCEPT !.pos = 0, !.end_pos = 0, !.cur_capacity = INIT_CAPACITY,
              !.part_idx = 0,
              !.part = [i \in 0..1 |-> Partition(base_pos, 0, INIT_CAPACITY)]]

\* The read boundary rewind sets when it moves into the other partition,
\* whose half starts at half_base; new_pos is the new read index.
rewind_end_pos(new_pos, half_base, len) == new_pos + len

\* (as rewind, with the two range tests strict)
rewind_strict(s, rewind_len, chk) ==
    LET cur_idx == s.part_idx
        alt_idx == 1 - cur_idx
        target_pos == WSub(pos_val(s), rewind_len)
        in_cur == target_pos > s.part[cur_idx].base_pos
        in_alt == ~in_cur /\ target_pos > s.part[alt_idx].base_pos
        ovf == \/ pos_ovf(s)
               \/ rewind_len > pos_val(s)
               \/ in_cur /\ rewind_len > s.pos
        new_pos == (alt_idx * MAX_CAPACITY) + (target_pos - s.part[alt_idx].base_pos)
    IN  IF chk /\ ovf THEN Result(s, "panic", 0, <<>>, TRUE)
        ELSE IF in_cur
             THEN Result([s EXCEPT !.pos = WSub(@, rewind_len)],
                         "ok", rewind_len, <<>>, ovf)
        ELSE IF in_alt
             THEN Result([s EXCEPT !.part_idx = alt_idx,
                                   !.pos = new_pos,
                                   !.end_pos = rewind_end_pos(new_pos,
                                                   alt_idx * MAX_CAPACITY,
                                                   s.part[alt_idx].len)],
                         "ok", rewind_len, <<>>, ovf)
        ELSE Result(s, "ok", 0, <<>>, ovf)

\* rewind(rewind_len)
rewind(s, rewind_len, chk) ==
    LET cur_idx == s.part_idx
        alt_idx == 1 - cur_idx
        target_pos == WSub(pos_val(s), rewind_len)
        in_cur == target_pos >= s.part[cur_idx].base_pos
        in_alt == ~in_cur /\ target_pos >= s.part[alt_idx].base_pos
        ovf == \/ pos_ovf(s)
               \/ rewind_len > pos_val(s)
               \/ in_cur /\ rewind_len > s.pos
        new_pos == (alt_idx * MAX_CAPACITY) + (target_pos - s.part[alt_idx].base_pos)
    IN  IF chk /\ ovf THEN Result(s, "panic", 0, <<>>, TRUE)
        ELSE IF in_cur
             THEN Result([s EXCEPT !.pos = WSub(@, rewind_len)],
                         "ok", rewind_len, <<>>, ovf)
        ELSE IF in_alt
             THEN Result([s EXCEPT !.part_idx = alt_idx,
                                   !.pos = new_pos,
                                   !.end_pos = rewind_end_pos(new_pos,
                                                   alt_idx * MAX_CAPACITY,
                                                   s.part[alt_idx].len)],
                         "ok", rewind_len, <<>>, ovf)
        ELSE Result(s, "ok", 0, <<>>, ovf)

\* The loop of io::Read::read: rem bytes still wanted, out the bytes copied.
RECURSIVE read_loop(_, _, _)
read_loop(s, rem, out) ==
    IF rem = 0 THEN [st |-> "ok", s |-> s, out |-> out]
    ELSE With(fetch_buffer(s), LAMBDA fb :
            IF fb.st # "ok" THEN [st |-> fb.st, s |-> fb.s, out |-> out]
            ELSE With(Min(fb.s.end_pos - fb.s.pos, rem), LAMBDA count :
                    IF count = 0 THEN [st |-> "ok", s |-> fb.s, out |-> out]
                    ELSE read_loop([fb.s EXCEPT !.pos = @ + count], rem - count,
                                   out \o buf_bytes(fb.s, fb.s.pos,
                                                    fb.s.pos + count))))

\* What read returns when its loop ended normally with `read` bytes copied
\* into a buffer of buf_len bytes.
read_result(read, buf_len) == IF read = 0 /\ buf_len > 0 THEN "eof" ELSE "ok"

\* io::Read::read(buf) with buf.len() = buf_len (read_buf is the same call).
\* out: the bytes written to the head of buf, also when the call fails.
read(s, buf_len) ==
    With(read_loop(s, buf_len, <<>>), LAMBDA r :
        IF r.st # "ok" THEN Result(r.s, r.st, 0, r.out, FALSE)
        ELSE Result(r.s, read_result(Len(r.out), buf_len),
                    IF Len(r.out) = 0 /\ buf_len > 0 THEN 0 ELSE Len(r.out),
                    r.out, FALSE))

\* dest with w written at index off (0-based).
overwrite(dest, off, w) ==
    [k \in 1..Len(dest) |->
        IF k > off /\ k <= off + Len(w) THEN w[k - off] ELSE dest[k]]

\* io::Read::read_exact (the standard library's default, over read above):
\* dest is the caller's buffer, off the bytes of it filled so far.
RECURSIVE read_exact_loop(_, _, _)
read_exact_loop(s, dest, off) ==
    IF off = Len(dest) THEN Result(s, "ok", 0, dest, FALSE)
    ELSE With(read(s, Len(dest) - off), LAMBDA r :
            With(overwrite(dest, off, r.out), LAMBDA d :
                IF r.st = "ok" /\ r.ret = 0 THEN Result(r.s, "eof", 0, d, FALSE)
                ELSE IF r.st = "ok" THEN read_exact_loop(r.s, d, off + r.ret)
                ELSE IF r.st = "intr" THEN read_exact_loop(r.s, d, off)
                ELSE Result(r.s, r.st, 0, d, FALSE)))

\* read_buf_exact(buf) with buf.len() = buf_len, buf zeroed by the caller.
read_buf_exact(s, buf_len) ==
    read_exact_loop(s, [k \in 1..buf_len |-> 0], 0)

\* read_byte(): pos is incremented before buf[pos - 1] is indexed, so the
\* index panic leaves the incremented (in a build without checks, wrapped)
\* pos behind; with checks the increment itself panics at the word's end.
read_byte(s, chk) ==
    LET ovf == s.pos > s.end_pos
    IN  IF chk /\ ovf THEN Result(s, "panic", 0, <<>>, TRUE)
        ELSE With(IF WSub(s.end_pos, s.pos) < 1 THEN fetch_buffer_or_eof(s)
                  ELSE [st |-> "ok", s |-> s],
                  LAMBDA fb :
                    IF fb.st # "ok" THEN Result(fb.s, fb.st, 0, <<>>, ovf)
                    ELSE IF chk /\ fb.s.pos = WordMod - 1
                         THEN Result(fb.s, "panic", 0, <<>>, TRUE)
                    ELSE IF fb.s.pos >= BufLen
                         THEN Result([fb.s EXCEPT !.pos = WAdd(@, 1)],
                                     "panic", 0, <<>>, ovf)
                    ELSE Result([fb.s EXCEPT !.pos = @ + 1], "ok", 0,
                                <<fb.s.buf[fb.s.pos]>>, ovf))

\* The slow path of read_double_bytes / read_triple_bytes / read_quad_bytes:
\* n bytes still to copy one at a time.
RECURSIVE read_fixed_slow(_, _, _)
read_fixed_slow(s, n, out) ==
    IF n = 0 THEN Result(s, "ok", 0, out, FALSE)
    ELSE With(IF s.pos >= s.end_pos THEN fetch_buffer_or_eof(s)
              ELSE [st |-> "ok", s |-> s],
              LAMBDA fb :
                IF fb.st # "ok" THEN Result(fb.s, fb.st, 0, out, FALSE)
                ELSE IF fb.s.pos >= BufLen
                     THEN Result(fb.s, "panic", 0, out, FALSE)
                ELSE read_fixed_slow([fb.s EXCEPT !.pos = @ + 1], n - 1,
                                     Append(out, fb.s.buf[fb.s.pos])))

\* read_double_bytes (n = 2), read_triple_bytes (3), read_quad_bytes (4)
read_fixed(s, n, chk) ==
    LET ovf == s.pos > s.end_pos
    IN  IF chk /\ ovf THEN Result(s, "panic", 0, <<>>, TRUE)
        ELSE IF WSub(s.end_pos, s.pos) >= n
             THEN IF ~slice_ok(s.pos, s.pos + n)
                  THEN Result(s, "panic", 0, <<>>, ovf)
                  ELSE Result([s EXCEPT !.pos = @ + n], "ok", 0,
                              buf_bytes(s, s.pos, s.pos + n), ovf)
        ELSE [read_fixed_slow(s, n, <<>>) EXCEPT !.ovf = ovf]

\* ignore_bytes(count)
RECURSIVE ignore_bytes(_, _)
ignore_bytes(s, count) ==
    IF count = 0 THEN Result(s, "ok", 0, <<>>, FALSE)
    ELSE With(fetch_buffer_or_eof(s), LAMBDA fb :
            IF fb.st # "ok" THEN Result(fb.s, fb.st, 0, <<>>, FALSE)
            ELSE With(Min(fb.s.end_pos - fb.s.pos, count), LAMBDA discard_count :
                    ignore_bytes([fb.s EXCEPT !.pos = @ + discard_count],
                                 count - discard_count)))

\* A machine word read as a signed integer (u64 as i64).
as_signed(x) == IF 2 * x >= WordMod THEN x - WordMod ELSE x

\* inner.seek(..) on a cursor: whence is "start", "current" or "end"; a
\* position before the start of the source is an error, and so is any seek
\* of a source that cannot seek.
inner_seek(s, whence, offset) ==
    LET base == IF whence = "start" THEN 0
                ELSE IF whence = "end" THEN src_len ELSE s.src_pos
        new_pos == base + offset
    IN  IF ~src_seekable \/ new_pos < 0 THEN [st |-> "seekerr", s |-> s, ret |-> 0]
        ELSE [st |-> "ok", ret |-> new_pos,
              s |-> [s EXCEPT !.src_pos = new_pos, !.src_log = NoLog]]

\* (as seek_is_noop, with the zero-delta case forgotten)
seek_never_noop(whence, offset) == FALSE

\* SeekFrom::Current(0): answered from pos() without asking the source.
seek_is_noop(whence, offset) == whence = "current" /\ offset = 0

\* (as seek_delta, without the compensation for the read-ahead)
seek_delta_raw(s, delta_pos) == delta_pos

\* The distance asked of the source for SeekFrom::Current(delta_pos).
seek_delta(s, delta_pos) == delta_pos - as_signed(buffered_bytes(s))

\* (as seek_error, with the buffer invalidated all the same)
seek_error_invalidates(s, st, ovf) ==
    Result([s EXCEPT !.pos = 0, !.end_pos = 0, !.cur_capacity = INIT_CAPACITY,
                     !.part_idx = 0,
                     !.part = [i \in 0..1 |-> Partition(0, 0, INIT_CAPACITY)]],
           st, 0, <<>>, ovf)

\* The source's seek failed: the error leaves seek through `?`.
seek_error(s, st, ovf) == Result(s, st, 0, <<>>, ovf)

\* io::Seek::seek(SeekFrom)
seek(s, whence, offset, chk) ==
    LET relative == whence = "current"
        noop == seek_is_noop(whence, offset)
        ovf == relative /\ (IF noop THEN pos_ovf(s) ELSE buffered_ovf(s))
    IN  IF chk /\ ovf THEN Result(s, "panic", 0, <<>>, TRUE)
        ELSE IF noop THEN Result(s, "ok", pos_val(s), <<>>, ovf)
        ELSE With(IF relative
                  THEN inner_seek(s, "current", seek_delta(s, offset))
                  ELSE inner_seek(s, whence, offset),
                  LAMBDA r :
                    IF r.st # "ok" THEN seek_error(s, r.st, ovf)
                    ELSE Result(invalidate(r.s, r.ret), "ok", r.ret, <<>>, ovf))

\* ------------------------------------------------------------------------
\* The consumer: one action per operation of the stream's interface

ReadLens == {0, 3, MaxReadLen}

RewindLens == 0..MaxRewind

SeekOffsets == {SeekTarget}

SeekDeltas == {-3, 0, 2}

\* The builds the program may be: once an overflow has wrapped, it is one
\* without overflow checks.
Checks == IF wraps > 0 THEN {FALSE} ELSE {TRUE, FALSE}

ForwardOps == {"read_byte", "read_fixed", "read_buf", "read_buf_exact", "ignore_bytes"}

\* hist: fwd = only forward reads and skips since creation or the last seek;
\* clean = moreover each of them succeeded; start = the stream offset at
\* creation or the last seek; n = bytes handed over or skipped since (while
\* clean).
HistAfter(op, arg, r) ==
    IF r.st = "panic" THEN hist
    ELSE IF op \in ForwardOps THEN
        LET clean == hist.clean /\ r.st = "ok"
            got == IF op = "ignore_bytes" THEN arg ELSE Len(r.out)
        IN  [fwd |-> hist.fwd, clean |-> clean,
             start |-> IF hist.fwd THEN hist.start ELSE 0,
             n |-> IF clean THEN hist.n + got ELSE 0]
    ELSE IF op = "rewind" THEN [fwd |-> FALSE, clean |-> FALSE, start |-> 0, n |-> 0]
    ELSE IF r.st = "ok" /\ ~(arg[1] = "current" /\ arg[2] = 0)
         THEN [fwd |-> TRUE, clean |-> TRUE, start |-> r.ret, n |-> 0]
    ELSE hist

\* The step of the program that runs operation op with argument arg and
\* ends as r; chk tells the build the step was computed for.
Step(op, arg, r, chk) ==
    /\ ~panicked
    /\ buf' = r.s.buf
    /\ pos' = r.s.pos
    /\ end_pos' = r.s.end_pos
    /\ cur_capacity' = r.s.cur_capacity
    /\ part_idx' = r.s.part_idx
    /\ part' = r.s.part
    /\ src_pos' = r.s.src_pos
    /\ src_calls' = r.s.src_calls
    /\ src_log' = r.s.src_log
    /\ panicked' = (r.st = "panic")
    /\ r.ovf /\ ~chk => wraps < MaxWraps
    /\ wraps' = IF r.ovf /\ ~chk THEN wraps + 1 ELSE wraps
    /\ hist' = HistAfter(op, arg, r)
    /\ seeks' = IF op = "seek" /\ r.st = "ok" /\ arg # <<"current", 0>>
                THEN seeks + 1 ELSE seeks
    /\ last' = [op |-> op, arg |-> arg, st |-> r.st, ret |-> r.ret, out |-> r.out,
                pre |-> Self, h |-> hist]
    /\ UNCHANGED <<src_len, sched, src_seekable>>

Init ==
    /\ \E src \in Sources :
          src_len = src.len /\ sched = src.sched /\ src_seekable = src.seekable
    /\ buf = New.buf
    /\ pos = New.pos
    /\ end_pos = New.end_pos
    /\ cur_capacity = New.cur_capacity
    /\ part_idx = New.part_idx
    /\ part = New.part
    /\ src_pos = New.src_pos
    /\ src_calls = New.src_calls
    /\ src_log = New.src_log
    /\ hist = [fwd |-> TRUE, clean |-> TRUE, start |-> 0, n |-> 0]
    /\ seeks = 0
    /\ wraps = 0
    /\ panicked = FALSE
    /\ last = [op |-> "new", arg |-> 0, st |-> "ok", ret |-> 0, out |-> <<>>,
               pre |-> New, h |-> [fwd |-> TRUE, clean |-> TRUE, start |-> 0, n |-> 0]]

ReadByte ==
    \E chk \in Checks : Step("read_byte", 1, read_byte(Self, chk), chk)

ReadFixed ==
    \E n \in 2..4 : \E chk \in Checks :
        Step("read_fixed", n, read_fixed(Self, n, chk), chk)

ReadBuf ==
    \E n \in ReadLens : Step("read_buf", n, read(Self, n), FALSE)

ReadBufExact ==
    \E n \in ReadLens : Step("read_buf_exact", n, read_buf_exact(Self, n), FALSE)

IgnoreBytes ==
    \E n \in ReadLens : Step("ignore_bytes", n, ignore_bytes(Self, n), FALSE)

Rewind ==
    \E n \in RewindLens : \E chk \in Checks :
        Step("rewind", n, rewind(Self, n, chk), chk)

SeekStart ==
    \E p \in SeekOffsets : \E chk \in Checks :
        /\ seeks < MaxSeeks
        /\ Step("seek", <<"start", p>>, seek(Self, "start", p, chk), chk)

SeekCurrent ==
    \E d \in SeekDeltas : \E chk \in Checks :
        /\ seeks < MaxSeeks
        /\ Step("seek", <<"current", d>>, seek(Self, "current", d, chk), chk)

Next ==
    \/ ReadByte
    \/ ReadFixed
    \/ ReadBuf
    \/ ReadBufExact
    \/ IgnoreBytes
    \/ Rewind
    \/ SeekStart
    \/ SeekCurrent

Spec == Init /\ [][Next]_vars

\* ------------------------------------------------------------------------
\* Vocabulary of the properties

\* The n bytes of the source from absolute offset a on.
SrcBytes(a, n) == [k \in 1..n |-> SrcByte(a + k - 1)]

\* The source never fails a read with an I/O error / never interrupts one.
NoIoFailure == \A k \in 1..Len(sched) : sched[k] # IoFailure

NoInterrupt == \A k \in 1..Len(sched) : sched[k] # Interrupted

\* n successive single-byte reads by the consumer, stopping at the first
\* that fails: the stream afterwards, how the last read ended, the bytes.
RECURSIVE read_each(_, _, _)
read_each(s, n, out) ==
    IF n = 0 THEN Result(s, "ok", 0, out, FALSE)
    ELSE LET r == read_byte(s, TRUE)
         IN  IF r.st # "ok" THEN Result(r.s, r.st, 0, out, r.ovf)
             ELSE read_each(r.s, n - 1, out \o r.out)

\* The state before the last operation, and its queries.
Pre == last.pre

PrePos == pos_val(Pre)

PreRewindable == rewindable_bytes(Pre)

\* ------------------------------------------------------------------------
\* Rewinding (C1, C2, C3)

\* C1: round-trip law.  After rewind(n) with 0 < n <= rewindable_bytes(),
\* reading n bytes, in one bulk read or byte by byte, yields the source
\* bytes at offsets [p - n, p), p being pos() before the rewind (stated for
\* runs in which no arithmetic has overflowed, the case of C2).
C1_RewindRoundTrip ==
    (last.op = "rewind" /\ last.st = "ok" /\ wraps = 0
        /\ last.arg > 0 /\ last.arg <= PreRewindable)
    => /\ read(Self, last.arg).out = SrcBytes(PrePos - last.arg, last.arg)
       /\ read_each(Self, last.arg, <<>>).out = SrcBytes(PrePos - last.arg, last.arg)

\* C2: rewind(n) with n > rewindable_bytes() returns 0, neither fails nor
\* overflows, and leaves the whole stream as it was.
C2_RewindTooFar ==
    (last.op = "rewind" /\ ~rewindable_ovf(Pre) /\ last.arg > PreRewindable)
    => /\ last.st = "ok"
       /\ last.ret = 0
       /\ wraps = 0
       /\ Self = Pre

\* C3: rewind reports the bytes actually rewound: pos() afterwards is pos()
\* before minus the value returned, which is n whenever
\* n <= rewindable_bytes() (stated for runs in which no arithmetic has
\* overflowed, the case of C2).
C3_RewindReportsDistance ==
    (last.op = "rewind" /\ last.st = "ok" /\ wraps = 0)
    => /\ pos_val(Self) = PrePos - last.ret
       /\ last.arg <= PreRewindable => last.ret = last.arg

\* ------------------------------------------------------------------------
\* Forward reading and seeking (C4, C5, C6, C7)

\* The consumer's true offset in a clean forward run.
CleanOffset(h) == h.start + h.n

\* C4: pure forward reading delivers the source unchanged.  Over a source
\* that neither fails nor interrupts, whatever its short reads, every read
\* of a run of successful forward operations hands over the source bytes
\* that follow those already consumed, all that were asked for while the
\* source has them; and from every such state a bulk read of k bytes and k
\* single-byte reads yield the same bytes, the next k of the source.
C4_ForwardReadsDeliverSource ==
    (NoIoFailure /\ NoInterrupt /\ hist.clean /\ ~panicked)
    => /\ last.op \in {"read_byte", "read_fixed", "read_buf", "read_buf_exact"}
          => /\ last.out = SrcBytes(CleanOffset(last.h), Len(last.out))
             /\ CleanOffset(last.h) + last.arg <= src_len
                => Len(last.out) = last.arg
       /\ \A k \in 1..MaxReadLen :
            CleanOffset(hist) + k <= src_len
            => /\ read(Self, k).out = SrcBytes(CleanOffset(hist), k)
               /\ read_each(Self, k, <<>>).out = SrcBytes(CleanOffset(hist), k)

\* A bulk read that crossed a partition swap over a source making short
\* reads, after earlier reads, and got all the bytes it asked for.
C4_Witness ==
    /\ hist.clean /\ NoIoFailure /\ NoInterrupt
    /\ last.op = "read_buf" /\ last.arg = MaxReadLen /\ Len(last.out) = MaxReadLen
    /\ last.h.n > 0
    /\ \E k \in 1..Len(sched) : sched[k] < INIT_CAPACITY
    /\ part_idx # Pre.part_idx

\* C5: after a successful absolute seek for which the source reports
\* position P: pos() = P, buffered_bytes() = 0, rewindable_bytes() = 0,
\* whatever the state before; and reads that follow deliver the source
\* bytes from offset P on.
C5_AbsoluteSeek ==
    (last.op = "seek" /\ last.st = "ok" /\ last.arg[1] = "start")
    => /\ last.ret = last.arg[2]
       /\ ~pos_ovf(Self) /\ pos_val(Self) = last.ret
       /\ ~buffered_ovf(Self) /\ buffered_bytes(Self) = 0
       /\ ~rewindable_ovf(Self) /\ rewindable_bytes(Self) = 0
       /\ (NoIoFailure /\ NoInterrupt)
          => \A k \in 0..MaxReadLen :
                read(Self, k).out
                    = SrcBytes(last.ret, Min(k, Max(src_len - last.ret, 0)))

\* An absolute seek made with unread bytes buffered, after the capacity
\* had grown and the stream had been rewound into the older partition.
C5_Witness ==
    /\ last.op = "seek" /\ last.st = "ok" /\ last.arg[1] = "start"
    /\ buffered_bytes(Pre) > 0
    /\ Pre.cur_capacity > INIT_CAPACITY
    /\ Pre.part[Pre.part_idx].base_pos < Pre.part[1 - Pre.part_idx].base_pos
    /\ last.ret < src_len

\* C6: in pure forward reading from a source that fills every request, the
\* sizes requested of the source are INIT_CAPACITY, 2 * INIT_CAPACITY,
\* 4 * INIT_CAPACITY, ... doubling up to MAX_CAPACITY and MAX_CAPACITY from
\* then on (src_log.reqs ends with the first request not filled).
C6_RequestsDoubleToMax ==
    hist.fwd
    => \A k \in 1..Len(src_log.reqs) :
          src_log.reqs[k] = Min(INIT_CAPACITY * 2^(k - 1), MAX_CAPACITY)

\* Forward reading that has asked the source five times: the capacity has
\* doubled to MAX_CAPACITY and stayed there.
C6_Witness ==
    /\ hist.fwd
    /\ Len(src_log.reqs) >= 5
    /\ src_log.reqs[Len(src_log.reqs) - 1] = MAX_CAPACITY
    /\ src_log.reqs[Len(src_log.reqs)] = MAX_CAPACITY
    /\ cur_capacity = MAX_CAPACITY

\* Bytes consumed since creation or the last seek, by pos().
Consumed == pos_val(Self) - hist.start

\* C7: minimum rewind guarantee.  After forward reads and skips only, with
\* R bytes consumed since creation or the last seek, rewindable_bytes() >=
\* min(R, INIT_CAPACITY), and = R when R < INIT_CAPACITY, whatever the
\* source's short reads and failures and also at its end; and rewind(n)
\* returns n for every n <= min(R, INIT_CAPACITY).
C7_MinimumRewind ==
    (hist.fwd /\ ~panicked)
    => /\ ~pos_ovf(Self) /\ ~rewindable_ovf(Self)
       /\ Consumed >= 0
       /\ (hist.clean /\ NoInterrupt) => Consumed = hist.n
       /\ rewindable_bytes(Self) >= Min(Consumed, INIT_CAPACITY)
       /\ Consumed < INIT_CAPACITY => rewindable_bytes(Self) = Consumed
       /\ \A n \in 0..Min(Consumed, INIT_CAPACITY) :
            /\ rewind(Self, n, TRUE).st = "ok"
            /\ rewind(Self, n, TRUE).ret = n

\* A rewind by INIT_CAPACITY that succeeded at the end of a source that
\* made short reads, after forward reading through several partitions.
C7_Witness ==
    /\ last.op = "rewind" /\ last.h.fwd /\ last.st = "ok"
    /\ last.arg = INIT_CAPACITY /\ last.ret = INIT_CAPACITY
    /\ Pre.src_pos = src_len /\ pos_val(Pre) = src_len
    /\ Pre.cur_capacity > INIT_CAPACITY
    /\ \E k \in 1..Len(sched) : sched[k] < INIT_CAPACITY

\* ------------------------------------------------------------------------
\* Bulk reads and source interruptions (C8, C9, C10)

ReadOps == {"read_byte", "read_fixed", "read_buf", "read_buf_exact", "ignore_bytes"}

\* C8: an Interrupted error of a source read is never visible to the
\* consumer: no read operation ends with it.
C8_InterruptedNeverSurfaces ==
    last.op \in ReadOps => last.st # "intr"

\* Bytes between pos() and the end of the source before the last operation
\* (none when a seek has gone past the end).
PreRemaining == Max(src_len - PrePos, 0)

\* C9: read_buf(buf), unless the source fails with an I/O error, returns
\* the count of bytes transferred: len(buf) whenever that many bytes remain
\* before the end of the source, and a smaller count c, 0 <= c < len(buf),
\* as a success, only when the source is at its end; pos() advances by the
\* count returned.
C9_ReadBufCount ==
    (last.op = "read_buf" /\ NoIoFailure /\ ~pos_ovf(Pre))
    => /\ last.st = "ok"
       /\ last.ret = Len(last.out)
       /\ PreRemaining >= last.arg => last.ret = last.arg
       /\ last.ret < last.arg => src_pos >= src_len
       /\ pos_val(Self) = PrePos + last.ret

\* C10: read_buf_exact(buf) of n bytes, unless the source fails with an
\* I/O error, succeeds, delivers the next n bytes of the stream and
\* advances pos() by n if and only if n bytes remain between pos() and the
\* end of the source; otherwise it fails with end-of-stream.
C10_ReadBufExact ==
    (last.op = "read_buf_exact" /\ NoIoFailure /\ ~pos_ovf(Pre))
    => IF PreRemaining >= last.arg
       THEN /\ last.st = "ok"
            /\ last.out = SrcBytes(PrePos, last.arg)
            /\ pos_val(Self) = PrePos + last.arg
       ELSE last.st = "eof"

\* ------------------------------------------------------------------------
\* Seeking (C11, C12, C13, C14)

\* The last operation was seek(SeekFrom::Current(0)).
ZeroSeek == last.op = "seek" /\ last.arg = <<"current", 0>>

\* The last operation was a seek that moved the source.
MovingSeek == last.op = "seek" /\ last.st = "ok" /\ ~ZeroSeek

\* C11: a zero-delta relative seek is a no-op in every reachable state: it
\* returns the current pos(), does not touch the source, and leaves the
\* cursor, the active index, both partitions and cur_capacity as they were,
\* so that buffered_bytes() and rewindable_bytes() are unchanged.
C11_ZeroSeekNoOp ==
    ZeroSeek
    => /\ last.st = "ok"
       /\ last.ret = PrePos
       /\ Self = Pre
       /\ pos_val(Self) = PrePos
       /\ buffered_bytes(Self) = buffered_bytes(Pre)
       /\ rewindable_bytes(Self) = rewindable_bytes(Pre)

\* A zero-delta seek made with unread bytes buffered and bytes to rewind,
\* after the capacity had grown.
C11_Witness ==
    /\ ZeroSeek /\ last.st = "ok"
    /\ buffered_bytes(Pre) > 0 /\ rewindable_bytes(Pre) > 0
    /\ Pre.cur_capacity > INIT_CAPACITY
    /\ Pre.part_idx = 1

\* C12: a successful nonzero relative seek by delta compensates for the
\* read-ahead: the source is asked to move by delta - buffered_bytes(), and
\* the position returned and the new pos() are the old pos() + delta (in
\* machine arithmetic).
C12_RelativeSeek ==
    (MovingSeek /\ last.arg[1] = "current")
    => /\ src_pos = Pre.src_pos + (last.arg[2] - as_signed(buffered_bytes(Pre)))
       /\ last.ret = (PrePos + last.arg[2]) % WordMod
       /\ pos_val(Self) = (PrePos + last.arg[2]) % WordMod

\* A relative seek made with unread bytes buffered, after a rewind.
C12_Witness ==
    /\ MovingSeek /\ last.arg[1] = "current"
    /\ buffered_bytes(Pre) > 0
    /\ ~last.h.fwd
    /\ last.ret >= 0 /\ last.ret < src_len

\* C13: when the source rejects a seek, seek returns that error and the
\* stream is as before the call (pos(), buffered_bytes(),
\* rewindable_bytes(), both partitions, cur_capacity, the buffer and the
\* source's position), so that reads continue from the old position.
C13_SeekErrorKeepsState ==
    (last.op = "seek" /\ last.st = "seekerr")
    => /\ Self = Pre
       /\ pos_val(Self) = PrePos
       /\ \A k \in 1..MaxReadLen : read(Self, k) = read(Pre, k)

\* A seek rejected by the source with unread bytes buffered.
C13_Witness ==
    /\ last.op = "seek" /\ last.st = "seekerr"
    /\ buffered_bytes(Pre) > 0
    /\ Pre.cur_capacity > INIT_CAPACITY

\* C14: every successful seek other than the zero-delta no-op resets the
\* growth: both partitions are {base_pos = new position, len = 0,
\* capacity = INIT_CAPACITY}, cur_capacity = INIT_CAPACITY, the active index
\* is 0, and the next refill asks the source for INIT_CAPACITY bytes.
C14_SeekResetsGrowth ==
    MovingSeek
    => /\ part = [i \in 0..1 |-> Partition(last.ret, 0, INIT_CAPACITY)]
       /\ cur_capacity = INIT_CAPACITY
       /\ part_idx = 0
       /\ pos = 0 /\ end_pos = 0
       /\ fetch_request(Self) = INIT_CAPACITY

\* A seek made after the capacity had grown to MAX_CAPACITY.
C14_Witness ==
    /\ MovingSeek
    /\ Pre.cur_capacity = MAX_CAPACITY
    /\ Pre.part_idx = 1

\* ------------------------------------------------------------------------
\* Invariants of the buffer (C15, C16, C17, C18, C19)

\* The first index of the active partition's half of the buffer.
ActiveHalf == part_idx * MAX_CAPACITY

\* C15: cursor bounds.  In every reachable state, with h the start of the
\* active half, h <= pos <= end_pos and end_pos = h + len of the active
\* partition, so that end_pos never exceeds the buffer's length.
C15_CursorBounds ==
    ~panicked
    => /\ ActiveHalf <= pos
       /\ pos <= end_pos
       /\ end_pos = ActiveHalf + part[part_idx].len
       /\ end_pos <= BufLen

\* C16: in every reachable state each partition holds at most its recorded
\* capacity, and that capacity is at most MAX_CAPACITY.
C16_LenWithinCapacity ==
    \A i \in 0..1 : /\ part[i].len <= part[i].capacity
                    /\ part[i].capacity <= MAX_CAPACITY

\* The refill due in state s is a grow-and-swap: the active partition is
\* read to its end, is not the older one, and is filled to its capacity.
SwapDue(s) ==
    LET cur == s.part[s.part_idx]
        alt == s.part[1 - s.part_idx]
    IN  /\ s.pos >= s.end_pos
        /\ ~(cur.base_pos < alt.base_pos)
        /\ ~(cur.len < cur.capacity)

\* C17: a grow-and-swap refill records the other partition with base_pos =
\* base_pos + len of the current one, len = the bytes transferred and
\* capacity = min(2 * cur_capacity, MAX_CAPACITY), which is also the amount
\* requested of the source and cur_capacity afterwards; the other partition
\* becomes the active one.
C17_GrowAndSwap ==
    (~panicked /\ SwapDue(Self) /\ fetch_buffer(Self).st = "ok")
    => LET cur == part[part_idx]
           alt_idx == 1 - part_idx
           capacity == Min(2 * cur_capacity, MAX_CAPACITY)
           after == fetch_buffer(Self).s
       IN  /\ fetch_request(Self) = capacity
           /\ after.part[alt_idx]
                = Partition(cur.base_pos + cur.len, after.src_pos - src_pos, capacity)
           /\ after.cur_capacity = capacity
           /\ after.part_idx = alt_idx

IsPowerOfTwo(n) == \E k \in 0..20 : n = 2^k

\* c grown by some number of doublings capped at MAX_CAPACITY.
Doublings(c) == { Min(c * 2^k, MAX_CAPACITY) : k \in 0..20 }

\* C18: in every reachable state cur_capacity and both partitions'
\* capacity are powers of two, INIT_CAPACITY <= cur_capacity <=
\* MAX_CAPACITY; cur_capacity changes only by doubling (capped at
\* MAX_CAPACITY) on a grow-and-swap refill or by reset to INIT_CAPACITY on
\* a seek, and rewind, partial fill and catch-up leave it as it is.
C18_CapacityPowersOfTwo ==
    /\ IsPowerOfTwo(cur_capacity)
    /\ INIT_CAPACITY <= cur_capacity /\ cur_capacity <= MAX_CAPACITY
    /\ \A i \in 0..1 : IsPowerOfTwo(part[i].capacity)
    /\ last.op = "rewind" => cur_capacity = Pre.cur_capacity
    /\ MovingSeek => cur_capacity = INIT_CAPACITY
    /\ (last.op = "seek" /\ ~MovingSeek) => cur_capacity = Pre.cur_capacity
    /\ last.op \in ForwardOps => cur_capacity \in Doublings(Pre.cur_capacity)
    /\ ~panicked
       => fetch_buffer(Self).s.cur_capacity
            = IF SwapDue(Self) /\ fetch_buffer(Self).st = "ok"
              THEN Min(2 * cur_capacity, MAX_CAPACITY)
              ELSE cur_capacity

\* A read, made after a rewind, that grew the capacity from INIT_CAPACITY
\* to MAX_CAPACITY.
C18_Witness ==
    /\ last.op \in ForwardOps /\ last.st = "ok"
    /\ ~last.h.fwd
    /\ Pre.cur_capacity = INIT_CAPACITY /\ cur_capacity = MAX_CAPACITY

\* C19: buffered_bytes() is the true read-ahead gap.  In every reachable
\* state the larger base_pos + len of the two partitions is the source's
\* read position, and buffered_bytes() is that position minus the
\* consumer's position, never negative; a rewind by r bytes, into the older
\* partition too, widens the gap by r.
C19_BufferedIsReadAhead ==
    ~panicked
    => /\ inner_pos(Self) = src_pos
       /\ ~buffered_ovf(Self)
       /\ buffered_bytes(Self) = src_pos - pos_val(Self)
       /\ (last.op = "rewind" /\ last.st = "ok")
          => buffered_bytes(Self) = buffered_bytes(Pre) + last.ret

\* ------------------------------------------------------------------------
\* Re-reading without I/O (C20)

\* The refill due in state s is a catch-up: the active partition is read
\* to its end and is the older one.
CatchUpDue(s) ==
    /\ s.pos >= s.end_pos
    /\ s.part[s.part_idx].base_pos < s.part[1 - s.part_idx].base_pos

\* The refill due in state s reaches the source: it has a request to make,
\* and the slice of the buffer it passes to the source exists.
SourceReadDue(s) ==
    /\ fetch_request(s) > 0
    /\ s.part[s.part_idx].len < s.part[s.part_idx].capacity
       => slice_ok(s.pos, s.pos + fetch_request(s))

\* C20: no source byte is fetched twice between seeks.  rewind never calls
\* the source; whenever the next refill would read from the source, the
\* cursor has caught up with the source (buffered_bytes() = 0); and the
\* refill due at the end of the older partition only makes the newer one
\* active, from its first byte, without calling the source.
C20_NoRefetch ==
    /\ last.op = "rewind"
       => /\ src_pos = Pre.src_pos
          /\ src_calls = Pre.src_calls
          /\ src_log = Pre.src_log
    /\ (~panicked /\ SourceReadDue(Self))
       => ~buffered_ovf(Self) /\ buffered_bytes(Self) = 0
    /\ (~panicked /\ CatchUpDue(Self))
       => LET alt_idx == 1 - part_idx
              after == fetch_buffer(Self).s
          IN  /\ fetch_request(Self) = 0
              /\ after.src_pos = src_pos /\ after.src_calls = src_calls
              /\ after.buf = buf
              /\ after.part_idx = alt_idx
              /\ after.pos = alt_idx * MAX_CAPACITY
              /\ after.end_pos = after.pos + part[alt_idx].len

\* ------------------------------------------------------------------------
\* Failing refills (C21)

\* The fields of the stream a refill may update.
StreamFields(s) == <<s.pos, s.end_pos, s.part_idx, s.part, s.cur_capacity>>

\* C21: an I/O error (other than Interrupted) of the source read of a
\* refill is returned as it is and the refill changes nothing: pos,
\* end_pos, the active index, both partitions and cur_capacity are as
\* before; so a single-byte read that fails with it leaves the stream and
\* pos() as they were, and the same read made again, when the source then
\* answers, delivers the byte at that same offset.
C21_FailedRefillKeepsState ==
    /\ (~panicked /\ SourceReadDue(Self) /\ Token(Self) = IoFailure)
       => /\ fetch_buffer(Self).st = "ioerr"
          /\ StreamFields(fetch_buffer(Self).s) = StreamFields(Self)
          /\ fetch_buffer(Self).s.buf = buf
          /\ fetch_buffer(Self).s.src_pos = src_pos
          /\ pos = end_pos => read_byte(Self, TRUE).st = "ioerr"
    /\ (last.op = "read_byte" /\ last.st = "ioerr")
       => /\ StreamFields(Self) = StreamFields(Pre)
          /\ pos_val(Self) = PrePos
          /\ read_byte(Self, TRUE).st = "ok"
             => read_byte(Self, TRUE).out = <<SrcByte(PrePos)>>

\* A single-byte read that failed with the source's I/O error when a
\* grow-and-swap refill was due, with bytes left in the source, and that
\* succeeds when made again.
C21_Witness ==
    /\ last.op = "read_byte" /\ last.st = "ioerr"
    /\ SwapDue(Pre)
    /\ Pre.cur_capacity > INIT_CAPACITY
    /\ PrePos < src_len
    /\ read_byte(Self, TRUE).st = "ok"

\* ------------------------------------------------------------------------
\* Fixed-width reads (C22, C23)

\* n successive calls of read_byte in a build with (chk) or without
\* overflow checks, stopping at the first that fails.
RECURSIVE single_reads(_, _, _, _)
single_reads(s, n, out, chk) ==
    IF n = 0 THEN Result(s, "ok", 0, out, FALSE)
    ELSE With(read_byte(s, chk), LAMBDA r :
            IF r.st # "ok" THEN Result(r.s, r.st, 0, out, r.ovf)
            ELSE single_reads(r.s, n - 1, out \o r.out, chk))

\* C22: in every reachable state and for n = 2, 3, 4, the n-byte read
\* (read_double_bytes, read_triple_bytes, read_quad_bytes) does what n
\* successive single-byte reads do: it ends the same way, returns the same
\* n bytes in stream order and leaves the stream in the same state (pos(),
\* active index, partitions), on its fast path and on its slow path.
\* (Builds without overflow checks are compared with themselves.)
C22_FixedReadIsSingleReads ==
    ~panicked
    => \A n \in 2..4 : \A chk \in Checks :
          LET fixed == read_fixed(Self, n, chk)
              single == single_reads(Self, n, <<>>, chk)
          IN  /\ fixed.st = single.st
              /\ fixed.st = "ok" => fixed.out = single.out
              /\ fixed.st # "panic"
                 => /\ fixed.s = single.s
                    /\ pos_val(fixed.s) = pos_val(single.s)

\* The last operation was an n-byte read (fixed-width or exact) that
\* failed with end-of-stream with fewer than n bytes left in the source.
ShortOfSource ==
    /\ last.op \in {"read_fixed", "read_buf_exact"}
    /\ last.st = "eof"
    /\ ~pos_ovf(Pre)
    /\ PreRemaining < last.arg

\* What is left to rewind after the last operation of the bytes it consumed.
Retained == Min(PreRemaining, rewindable_bytes(Self))

\* C23: an n-byte fixed-width or exact read that fails with end-of-stream
\* because only m < n bytes were left does not roll the cursor back: pos()
\* afterwards is pos() before plus m, the end of the source; reading on
\* delivers nothing, and the m bytes (those of them still in the rewind
\* window) are to be had again by rewinding and reading.
C23_NoRollBack ==
    ShortOfSource
    => /\ ~pos_ovf(Self) /\ ~rewindable_ovf(Self)
       /\ pos_val(Self) = PrePos + PreRemaining
       /\ PrePos <= src_len => pos_val(Self) = src_len
       /\ read_byte(Self, TRUE).st \notin {"ok", "panic"}
       /\ rewind(Self, Retained, TRUE).st = "ok"
       /\ rewind(Self, Retained, TRUE).ret = Retained
       /\ read(rewind(Self, Retained, TRUE).s, Retained).out
            = SrcBytes(pos_val(Self) - Retained, Retained)

\* ------------------------------------------------------------------------
\* Skipping (C24)

\* C24: ignore_bytes(n), in any reachable state and unless the source
\* fails with an I/O error: when n bytes remain before the end of the
\* source it succeeds with pos() advanced by n, through partition
\* boundaries and refills, and the next byte read is the source byte at
\* the new pos(); ignore_bytes(0) changes nothing and does not call the
\* source; when fewer than n bytes remain it fails with end-of-stream
\* having consumed all of them.
C24_IgnoreBytes ==
    (last.op = "ignore_bytes" /\ NoIoFailure /\ ~pos_ovf(Pre))
    => /\ last.arg = 0 => (last.st = "ok" /\ Self = Pre)
       /\ IF PreRemaining >= last.arg
          THEN /\ last.st = "ok"
               /\ ~pos_ovf(Self)
               /\ pos_val(Self) = PrePos + last.arg
               /\ pos_val(Self) < src_len
                  => /\ read_byte(Self, TRUE).st = "ok"
                     /\ read_byte(Self, TRUE).out = <<SrcByte(pos_val(Self))>>
          ELSE /\ last.st = "eof"
               /\ ~pos_ovf(Self)
               /\ pos_val(Self) = PrePos + PreRemaining

\* ------------------------------------------------------------------------
\* The end of the source (C25)

\* The last operation was a single-byte read that failed with
\* end-of-stream: the source has returned zero bytes and no unread byte is
\* left.
Exhausted == last.op = "read_byte" /\ last.st = "eof"

\* C25: the end of the source is not terminal.  Once a single-byte read
\* has failed with end-of-stream, reading again fails again (with
\* end-of-stream unless the source itself fails) and changes neither pos()
\* nor rewindable_bytes(); after rewind(n), 0 < n <= rewindable_bytes(),
\* the next n single-byte reads succeed with the n bytes before the end;
\* and after a successful seek to an offset before the end, reads succeed
\* from that offset.
C25_ExhaustedNotTerminal ==
    Exhausted
    => /\ ~pos_ovf(Self) /\ ~rewindable_ovf(Self)
       /\ read_byte(Self, TRUE).st \in {"eof", "intr", "ioerr"}
       /\ (NoIoFailure /\ NoInterrupt) => read_byte(Self, TRUE).st = "eof"
       /\ pos_val(read_byte(Self, TRUE).s) = pos_val(Self)
       /\ rewindable_bytes(read_byte(Self, TRUE).s) = rewindable_bytes(Self)
       /\ \A n \in 1..Min(MaxRewind, rewindable_bytes(Self)) :
            LET again == single_reads(rewind(Self, n, TRUE).s, n, <<>>, TRUE)
            IN  /\ rewind(Self, n, TRUE).ret = n
                /\ again.st = "ok"
                /\ again.out = SrcBytes(pos_val(Self) - n, n)
       /\ \A p \in 0..(src_len - 1) :
            LET sought == seek(Self, "start", p, TRUE)
            IN  sought.st = "ok"
                => /\ pos_val(sought.s) = p
                   /\ read_byte(sought.s, TRUE).st = "ok"
                   /\ read_byte(sought.s, TRUE).out = <<SrcByte(p)>>

\* ------------------------------------------------------------------------
\* The window of the two partitions (C26, C27)

\* The partition with the smaller base_pos (the rewind partition) and the
\* other one, when the two differ.
OlderIdx == IF part[0].base_pos < part[1].base_pos THEN 0 ELSE 1

\* The refill due in state s is a partial fill: the active partition is
\* read to its end, is not the older one, and is below its capacity.
FillDue(s) ==
    LET cur == s.part[s.part_idx]
        alt == s.part[1 - s.part_idx]
    IN  /\ s.pos >= s.end_pos
        /\ ~(cur.base_pos < alt.base_pos)
        /\ cur.len < cur.capacity

\* C26: the rewind partition is always at capacity.  Whenever the two
\* partitions have different base_pos, the one with the smaller base_pos
\* has len equal to its recorded capacity; for an active partition below
\* its capacity is topped up, before any grow-and-swap, by a read of
\* exactly capacity - len bytes appended in place, len and end_pos growing
\* by the amount transferred.
C26_RewindPartitionFull ==
    /\ part[0].base_pos # part[1].base_pos
       => part[OlderIdx].len = part[OlderIdx].capacity
    /\ (~panicked /\ FillDue(Self) /\ fetch_buffer(Self).st = "ok")
       => LET cur == part[part_idx]
              after == fetch_buffer(Self).s
              n == after.src_pos - src_pos
          IN  /\ fetch_request(Self) = cur.capacity - cur.len
              /\ after.part_idx = part_idx
              /\ after.part[part_idx] = [cur EXCEPT !.len = @ + n]
              /\ after.part[1 - part_idx] = part[1 - part_idx]
              /\ after.end_pos = end_pos + n
              /\ after.pos = pos
              /\ pos = part_idx * MAX_CAPACITY + cur.len
              /\ \A i \in 0..(BufLen - 1) :
                    after.buf[i] = IF i >= pos /\ i < pos + n
                                   THEN SrcByte(src_pos + (i - pos))
                                   ELSE buf[i]

\* The indices of the half of the buffer that partition g lives in.
Half(g) == (g * MAX_CAPACITY)..((g + 1) * MAX_CAPACITY - 1)

\* The partition that the refill due in state s fills.
FilledIdx(s) == IF SwapDue(s) THEN 1 - s.part_idx ELSE s.part_idx

\* C27: the two partitions cover one contiguous window of the stream, held
\* in disjoint halves of the buffer.  In every reachable state each
\* partition's bytes fit its half and are the source's: the byte at offset
\* j < len of the half of partition g is the source byte at base_pos + j;
\* where the base_pos differ, the older partition ends where the newer one
\* starts; and every read of the source writes only inside the half of
\* the partition being filled, leaving the other half as it was.
C27_ContiguousWindow ==
    /\ \A g \in 0..1 :
          /\ part[g].len <= MAX_CAPACITY
          /\ \A j \in 0..(part[g].len - 1) :
                buf[g * MAX_CAPACITY + j] = SrcByte(part[g].base_pos + j)
    /\ part[0].base_pos # part[1].base_pos
       => part[OlderIdx].base_pos + part[OlderIdx].len
            = part[1 - OlderIdx].base_pos
    /\ (~panicked /\ SourceReadDue(Self))
       => LET after == fetch_buffer(Self).s
          IN  /\ \A i \in 0..(BufLen - 1) :
                    after.buf[i] # buf[i] => i \in Half(FilledIdx(Self))
              /\ \A i \in Half(1 - FilledIdx(Self)) : after.buf[i] = buf[i]
              /\ after.part[1 - FilledIdx(Self)] = part[1 - FilledIdx(Self)]

\* A read over a source making short reads that began with a partial fill
\* of the active partition and went on into the other one, both partitions
\* holding bytes of different offsets afterwards.
C27_Witness ==
    /\ last.op \in ForwardOps /\ last.st = "ok"
    /\ FillDue(Pre) /\ Pre.part[Pre.part_idx].len > 0
    /\ part_idx # Pre.part_idx
    /\ part[0].base_pos # part[1].base_pos
    /\ part[0].len > 0 /\ part[1].len > 0
    /\ \E k \in 1..Len(sched) : sched[k] < INIT_CAPACITY

====
